---- MODULE Spec2Model ----
(***************************************************************************)
(* Model of the query-client lifecycle of my-tanstack-query-strategy:      *)
(* src/lib/get-query-client.ts (makeQueryClient, browserQueryClient,       *)
(* getQueryClient), the components that call it (QueryProvider, the SSR    *)
(* and streaming pages) and the hooks of src/hooks/usePosts.ts that        *)
(* register queries on the clients it returns.                             *)
(*                                                                         *)
(* A QueryClient is an object on the heap; a reference is its index in     *)
(* heap, Undefined is the JavaScript value undefined.  isServer is read on *)
(* every call of getQueryClient: the caller passes the value of its        *)
(* environment, so the one module instance is exercised by server and      *)
(* browser callers in every order.                                         *)
(*                                                                         *)
(* The specifications share the actions: Spec (the registry and the        *)
(* requests of the server), IsolationSpec (the caches of the requests and  *)
(* of a fetching session), SessionSpec (one browser session over time),    *)
(* RequestSpec (one request from its prefetch to the browser, with         *)
(* failures), RenderSpec (the server's rendering of one request, with the  *)
(* fairness of the event loop), ProviderSpec (the mounts and renders of    *)
(* QueryProvider), EndpointSpec (the mock endpoint GET /api/posts) and     *)
(* CSRSpec (the CSR page: its renders, its effect and its refresh button). *)
(***************************************************************************)
EXTENDS Integers, Sequences, FiniteSets, TLC

\* ---------------------------------------------------------------- bounds
MaxCalls == 4

MaxReqs == 2

MaxNow == 60000

TickMs == 30000

MaxRenders == 3

\* ------------------------------------------------------------- constants
Undefined == 0

StaleTime == 60 * 1000

RetryCount == 1

\* the delay of the SSR and CSR pages' query, and of the streaming page's
SSRDelay == 1500

StreamingDelay == 2000

\* the delays of the hooks: usePosts(1500) in SSRPostList and CSRDemoPage,
\* usePostsSuspense(2000) in StreamingPostList
SSRListDelay == 1500

CSRDelay == 1500

StreamingListDelay == 2000

\* defaultOptions.queries given to new QueryClient (makeQueryClient)
\* the library's own defaults, as if makeQueryClient passed no options
DefaultOptions_library ==
  [staleTime |-> 0, refetchOnWindowFocus |-> TRUE, retry |-> 3]

DefaultOptions ==
  [staleTime |-> StaleTime, refetchOnWindowFocus |-> FALSE, retry |-> RetryCount]

VARIABLES
  heap,                \* Seq of QueryClient objects; a reference is an index
  browserQueryClient,  \* the module-level singleton reference, or Undefined
  calls,               \* log of the getQueryClient() calls made so far
  now,                 \* Date.now(), in milliseconds
  req,                 \* the server requests: position, page and local variables
  provider,            \* browser: the queryClient state of the mounted QueryProvider
  mounted,             \* browser: the mounted components that use a posts query,
                       \* each with the result of its hook on its first render
  endpoint,            \* GET /api/posts: the calls awaiting their timer and
                       \* the responses sent so far
  renders,             \* browser: how often the mounted QueryProvider rendered
  csr                  \* browser: CSRDemoPage's state and what it last rendered

vars ==
  <<heap, browserQueryClient, calls, now, req, provider, mounted, endpoint,
    renders, csr>>

Reqs == 1 .. MaxReqs

\* who fetches data: a server request, or the session
Session == 0

NoOne == -1

\* ------------------------------------------- strings, numbers and URLs

\* the largest delay of a timer: setTimeout(resolve, delay) with a delay
\* above it, below 1 or NaN runs with a delay of 1
TimeoutMax == 2147483647

\* a string is the sequence of its characters
Digits == <<"0", "1", "2", "3", "4", "5", "6", "7", "8", "9">>

IsDigit(ch) == \E i \in 1 .. 10 : Digits[i] = ch

DigitValue(ch) == (CHOOSE i \in 1 .. 10 : Digits[i] = ch) - 1

\* a JavaScript number, as far as the endpoint tells numbers apart: NaN, an
\* integer of at most TimeoutMax in magnitude, or a larger one ("huge")
NaN == [kind |-> "nan", value |-> 0]

Int32(n) == [kind |-> "int", value |-> n]

Huge == [kind |-> "huge", value |-> TimeoutMax]

\* the digits of text from position i on, appended to the number acc
RECURSIVE ParseDigits(_, _, _)
ParseDigits(text, i, acc) ==
  IF i > Len(text) \/ ~IsDigit(text[i]) THEN acc
  ELSE IF \/ acc.kind = "huge"
          \/ acc.value > (TimeoutMax - DigitValue(text[i])) \div 10
       THEN ParseDigits(text, i + 1, Huge)
       ELSE ParseDigits(text, i + 1,
                        Int32(acc.value * 10 + DigitValue(text[i])))

\* parseInt(text, 10): leading blanks and a sign are skipped, then the
\* digits up to the first other character are read; without a digit the
\* result is NaN
RECURSIVE parseInt(_)
parseInt(text) ==
  IF text = <<>> THEN NaN
  ELSE IF text[1] = " " THEN parseInt(Tail(text))
  ELSE IF text[1] = "-" \/ text[1] = "+"
       THEN IF Len(text) < 2 \/ ~IsDigit(text[2]) THEN NaN
            ELSE LET n == ParseDigits(text, 2, Int32(0))
                 IN IF text[1] = "-" /\ n.kind = "int" THEN Int32(0 - n.value)
                    ELSE IF text[1] = "-" THEN [n EXCEPT !.value = 0 - @]
                    ELSE n
  ELSE IF ~IsDigit(text[1]) THEN NaN
  ELSE ParseDigits(text, 1, Int32(0))

\* `${n}` for an integer n >= 0
RECURSIVE NumberToString(_)
NumberToString(n) ==
  IF n < 10 THEN <<Digits[n + 1]>>
  ELSE Append(NumberToString(n \div 10), Digits[(n % 10) + 1])

\* searchParams.get('delay'): null when the URL has no such parameter
NoParam == [present |-> FALSE, text |-> <<>>]

Param(text) == [present |-> TRUE, text |-> text]

\* searchParams.get('delay') || '1000': null and '' are falsy
DelayText(param) ==
  IF ~param.present \/ param.text = <<>> THEN <<"1", "0", "0", "0">>
  ELSE param.text

\* the time the timer of setTimeout(resolve, delay) runs
TimerDelay(delay) ==
  IF delay.kind = "int" /\ delay.value >= 1 /\ delay.value <= TimeoutMax
  THEN delay.value
  ELSE 1

\* 3000000000, a delay of more than TimeoutMax milliseconds
ThreeBillion == <<"3", "0", "0", "0", "0", "0", "0", "0", "0", "0">>

\* the values of the delay parameter the endpoint is called with: those of
\* fetchPosts, no parameter, an empty one, 0, a non-number and a huge one
DelayParams ==
  {NoParam, Param(<<>>), Param(<<"0">>), Param(<<"a", "b", "c">>),
   Param(NumberToString(SSRDelay)), Param(NumberToString(StreamingDelay)),
   Param(ThreeBillion)}

\* axios.get(`${baseUrl}/api/posts?delay=${delay}`): the request fetchPosts
\* sends
fetchPosts(delay) ==
  [path |-> "/api/posts", delay |-> Param(NumberToString(delay))]

NoRequest == [path |-> "", delay |-> NoParam]

\* -------------------------------------------------------------- queries

\* ['posts', delay]
QueryKey(delay) == <<"posts", delay>>

Delays == {SSRDelay, StreamingDelay, SSRListDelay, CSRDelay, StreamingListDelay}

QueryKeys == {QueryKey(d) : d \in Delays}

\* postsQueryOptions whose queryFn calls fetchPosts() without the delay
postsQueryOptions_default_fetch(delay) ==
  [queryKey |-> QueryKey(delay), queryFnDelay |-> 1000]

\* postsQueryOptions(delay): the key, and the delay its queryFn requests
postsQueryOptions(delay) ==
  [queryKey |-> QueryKey(delay), queryFnDelay |-> delay]

\* a query that is not in the cache.  fetching is fetchStatus = 'fetching';
\* inflight tells that a GET /api/posts of the fetch is awaiting its response
\* (a fetching query that is not in flight waits for its retry); request is
\* the request the queryFn sent last, servedDelay the delay the endpoint
\* applied to the request that brought the data
NoQuery ==
  [status |-> "none", hasData |-> FALSE, dataUpdatedAt |-> 0, by |-> NoOne,
   via |-> "none", fetching |-> FALSE, inflight |-> FALSE,
   failureCount |-> 0, fetcher |-> NoOne, request |-> NoRequest,
   servedDelay |-> NaN]

EmptyCache == [k \in QueryKeys |-> NoQuery]

\* ------------------------------------------------------------- registry

\* new QueryClient({defaultOptions: {queries: ...}}): a fresh object
NewQueryClient(h, opts) ==
  Append(h, [defaultOptions |-> opts, queries |-> EmptyCache])

\* makeQueryClient() that hands out the object constructed last, as a
\* module-level `new QueryClient()` would
makeQueryClient_module_level(h) ==
  IF Len(h) > 0
  THEN [heap |-> h, ref |-> Len(h)]
  ELSE [heap |-> NewQueryClient(h, DefaultOptions), ref |-> Len(h) + 1]

\* makeQueryClient() that passes no defaultOptions
makeQueryClient_no_options(h) ==
  [heap |-> NewQueryClient(h, DefaultOptions_library), ref |-> Len(h) + 1]

\* makeQueryClient(): the heap after the construction and the new reference
makeQueryClient(h) ==
  [heap |-> NewQueryClient(h, DefaultOptions), ref |-> Len(h) + 1]

\* the results of a call of getQueryClient(): it returns ref, or it throws;
\* heap and bqc are the heap and the singleton reference after the call, made
\* counts the constructor invocations of the call and ctorThrew those that
\* threw
Returns(ref, h, bqc, made) ==
  [outcome |-> "return", ref |-> ref, heap |-> h, bqc |-> bqc, made |-> made,
   ctorThrew |-> 0]

Throws(made) ==
  [outcome |-> "throw", ref |-> Undefined, heap |-> heap,
   bqc |-> browserQueryClient, made |-> made, ctorThrew |-> 1]

\* getQueryClient() whose browser branch stores the first instance but
\* returns a new one
getQueryClient_returns_fresh(isSrv, ctorOk) ==
  IF ~ctorOk /\ (isSrv \/ browserQueryClient = Undefined) THEN Throws(1)
  ELSE IF isSrv \/ browserQueryClient = Undefined
  THEN Returns(makeQueryClient(heap).ref, makeQueryClient(heap).heap,
               IF isSrv THEN browserQueryClient ELSE makeQueryClient(heap).ref, 1)
  ELSE Returns(makeQueryClient(heap).ref, makeQueryClient(heap).heap,
               browserQueryClient, 1)

\* getQueryClient() without the isServer branch: a singleton everywhere
getQueryClient_no_env(isSrv, ctorOk) ==
  IF browserQueryClient = Undefined
  THEN IF ctorOk
       THEN Returns(makeQueryClient(heap).ref, makeQueryClient(heap).heap,
                    makeQueryClient(heap).ref, 1)
       ELSE Throws(1)
  ELSE Returns(browserQueryClient, heap, browserQueryClient, 0)

\* getQueryClient() without the `if (!browserQueryClient)` test: the browser
\* branch constructs and stores on every call
getQueryClient_always_new(isSrv, ctorOk) ==
  IF ~ctorOk THEN Throws(1)
  ELSE Returns(makeQueryClient(heap).ref, makeQueryClient(heap).heap,
               IF isSrv THEN browserQueryClient ELSE makeQueryClient(heap).ref, 1)

\* getQueryClient() whose server branch also stores what it constructs
getQueryClient_server_stores(isSrv, ctorOk) ==
  IF isSrv \/ browserQueryClient = Undefined
  THEN IF ctorOk
       THEN Returns(makeQueryClient(heap).ref, makeQueryClient(heap).heap,
                    makeQueryClient(heap).ref, 1)
       ELSE Throws(1)
  ELSE Returns(browserQueryClient, heap, browserQueryClient, 0)

\* getQueryClient() that catches a failed construction and constructs again
getQueryClient_retries(isSrv, ctorOk) ==
  IF isSrv \/ browserQueryClient = Undefined
  THEN [outcome |-> "return", ref |-> makeQueryClient(heap).ref,
        heap |-> makeQueryClient(heap).heap,
        bqc |-> IF isSrv THEN browserQueryClient ELSE makeQueryClient(heap).ref,
        made |-> IF ctorOk THEN 1 ELSE 2,
        ctorThrew |-> IF ctorOk THEN 0 ELSE 1]
  ELSE Returns(browserQueryClient, heap, browserQueryClient, 0)

\* getQueryClient() with the isServer test inverted
getQueryClient_inverted(isSrv, ctorOk) ==
  IF ~isSrv
  THEN IF ctorOk
       THEN Returns(makeQueryClient(heap).ref, makeQueryClient(heap).heap,
                    browserQueryClient, 1)
       ELSE Throws(1)
  ELSE IF browserQueryClient = Undefined
       THEN IF ctorOk
            THEN Returns(makeQueryClient(heap).ref, makeQueryClient(heap).heap,
                         makeQueryClient(heap).ref, 1)
            ELSE Throws(1)
       ELSE Returns(browserQueryClient, heap, browserQueryClient, 0)

\* getQueryClient() with isServer = isSrv; ctorOk = FALSE when the
\* QueryClient constructor throws
getQueryClient(isSrv, ctorOk) ==
  IF isSrv
  THEN IF ctorOk
       THEN Returns(makeQueryClient(heap).ref, makeQueryClient(heap).heap,
                    browserQueryClient, 1)
       ELSE Throws(1)
  ELSE IF browserQueryClient = Undefined
       THEN IF ctorOk
            THEN Returns(makeQueryClient(heap).ref, makeQueryClient(heap).heap,
                         makeQueryClient(heap).ref, 1)
            ELSE Throws(1)
       ELSE Returns(browserQueryClient, heap, browserQueryClient, 0)

\* the log entry of a call
CallEntry(isSrv, res) ==
  [isServer |-> isSrv, outcome |-> res.outcome, ref |-> res.ref,
   made |-> res.made, ctorThrew |-> res.ctorThrew]

\* ---------------------------------------------------- the query library

\* is the query's data stale for a client with the given staleTime
IsStale(q, staleTime, t) ==
  \/ ~q.hasData
  \/ t - q.dataUpdatedAt >= staleTime

\* the query after a fetch was started for it on behalf of who: the queryFn
\* issues GET /api/posts?delay=...
Fetching(q, who, delay) ==
  [q EXCEPT !.status = IF q.status = "none" THEN "pending" ELSE q.status,
            !.fetching = TRUE, !.inflight = TRUE, !.failureCount = 0,
            !.fetcher = who, !.request = fetchPosts(delay)]

\* does registering the intent start a fetch: the library fetches when it
\* wants to and no fetch of the query is already running
StartsFetch(h, c, opts, wants) ==
  wants /\ ~h[c].queries[opts.queryKey].fetching

\* the heap after an intent for opts was registered on client c by who
HeapAfterIntent(h, c, opts, who, wants) ==
  IF StartsFetch(h, c, opts, wants)
  THEN [h EXCEPT ![c].queries[opts.queryKey] = Fetching(@, who, opts.queryFnDelay)]
  ELSE h

\* queryClient.prefetchQuery(opts): fetches unless the cached data is fresh
WantsPrefetch(h, c, opts) ==
  IsStale(h[c].queries[opts.queryKey], h[c].defaultOptions.staleTime, now)

\* useQuery(opts) that fetches on every mount in the browser
WantsOnMount_always(h, c, opts, isSrv) == ~isSrv

\* useQuery(opts) when the component mounts: in the browser the query is
\* fetched when there is no data or the data is stale; a server render
\* never fetches for useQuery
WantsOnMount(h, c, opts, isSrv) ==
  /\ ~isSrv
  /\ IsStale(h[c].queries[opts.queryKey], h[c].defaultOptions.staleTime, now)

\* useSuspenseQuery(opts): as useQuery in the browser; on the server it
\* fetches (and suspends) when there is no data
WantsOnSuspense(h, c, opts, isSrv) ==
  IF isSrv THEN ~h[c].queries[opts.queryKey].hasData
  ELSE IsStale(h[c].queries[opts.queryKey], h[c].defaultOptions.staleTime, now)

\* dehydrate(queryClient): the successful queries of the client's cache
dehydrate(h, c) ==
  [k \in QueryKeys |->
     [present |-> h[c].queries[k].status = "success",
      dataUpdatedAt |-> h[c].queries[k].dataUpdatedAt,
      by |-> h[c].queries[k].by,
      servedDelay |-> h[c].queries[k].servedDelay]]

NoState ==
  [k \in QueryKeys |->
     [present |-> FALSE, dataUpdatedAt |-> 0, by |-> NoOne,
      servedDelay |-> NaN]]

\* a page without HydrationBoundary: nothing is put into the cache
HydrateQuery_never(q, s) == q

\* HydrationBoundary: a dehydrated query is put into the client's cache when
\* the cache has no such query, has one without data (its dataUpdatedAt is
\* 0, before every timestamp) or has older data
HydrateQuery(q, s) ==
  IF s.present /\ (q.status = "none" \/ ~q.hasData
                     \/ q.dataUpdatedAt < s.dataUpdatedAt)
  THEN [q EXCEPT !.status = "success", !.hasData = TRUE,
                 !.dataUpdatedAt = s.dataUpdatedAt, !.by = s.by,
                 !.via = "hydrate", !.servedDelay = s.servedDelay]
  ELSE q

hydrate(h, c, state) ==
  [h EXCEPT ![c].queries = [k \in QueryKeys |-> HydrateQuery(@[k], state[k])]]

\* ------------------------------------------------ CSRDemoPage's state

\* useState<number | null>(null)
Null == -1

\* JavaScript's truthiness of a number | null: null and 0 are falsy
Truthy(v) == v # Null /\ v # 0

\* the labels of the refresh button, in ASCII: LabelFetching is the source's
\* Korean text for "loading...", LabelIdle its Korean text for "refresh"
LabelFetching == "loading..."

LabelIdle == "refresh"

\* <button disabled={isLoading}> with the label chosen by isFetching
Button_by_isLoading(isFetching, isLoading) ==
  [disabled |-> isLoading,
   label |-> IF isFetching THEN LabelFetching ELSE LabelIdle]

\* <button onClick={handleRefresh} disabled={isFetching}> and its label
Button(isFetching, isLoading) ==
  [disabled |-> isFetching,
   label |-> IF isFetching THEN LabelFetching ELSE LabelIdle]

\* CSRDemoPage is not mounted
NoCSR ==
  [mounted |-> FALSE, startTime |-> Null, endTime |-> Null,
   isLoading |-> FALSE, isFetching |-> FALSE, button |-> Button(FALSE, FALSE)]

\* one render of CSRDemoPage with state c, its hook reading query q: the
\* hook's flags this render saw and the button it put on the page
Rendered(c, q) ==
  [c EXCEPT !.mounted = TRUE,
            !.isFetching = q.fetching,
            !.isLoading = q.fetching /\ ~q.hasData,
            !.button = Button(q.fetching, q.fetching /\ ~q.hasData)]

\* ------------------------------------------------------------------ Init

\* no key
NoKey == <<"none", 0>>

\* shell: StreamingDemoPage's own output (header, code blocks and the
\* Suspense boundary with its fallback) is produced; prefetchKey and listKey:
\* the key the page prefetched and the key the list component's hook uses;
\* list: what the list component rendered
IdleRequest ==
  [page |-> "none", pc |-> "idle", queryClient |-> Undefined,
   provider |-> Undefined, prefetchedOn |-> Undefined,
   dehydratedFrom |-> Undefined, state |-> NoState,
   used |-> {}, list |-> "none", shell |-> FALSE, prefetchKey |-> NoKey,
   listKey |-> NoKey]

Init ==
  /\ heap = <<>>
  /\ browserQueryClient = Undefined
  /\ calls = <<>>
  /\ now = 0
  /\ req = [r \in Reqs |-> IdleRequest]
  /\ provider = Undefined
  /\ mounted = {}
  /\ endpoint = [pending |-> {}, responses |-> <<>>]
  /\ renders = 0
  /\ csr = NoCSR

\* --------------------------------------------------- server: the pages

\* request r has arrived: one of its components has run.  Requests are
\* numbered in the order of their arrival
Arrived(r) == req[r].pc # "idle" \/ req[r].provider # Undefined

MayRun(r) == \A r2 \in Reqs : r2 < r => Arrived(r2)

\* a page that awaits the prefetch in the page component itself
StreamingDemoPage_awaits(page) == FALSE

\* is the page's own output produced in the render pass that starts the
\* prefetch: StreamingDemoPage is not async and renders its header, its code
\* blocks and the Suspense boundary with its fallback around the async
\* PostListWithData; SSRDemoPage is the async component itself
StreamingDemoPage(page) == page = "streaming"

\* the part of an async server component up to its await:
\*   const queryClient = getQueryClient();
\*   await queryClient.prefetchQuery(postsQueryOptions(delay));
PageStart(r, page, delay, ctorOk) ==
  /\ req[r].pc = "idle"
  /\ MayRun(r)
  /\ Len(calls) < MaxCalls
  /\ LET res == getQueryClient(TRUE, ctorOk)
         opts == postsQueryOptions(delay)
     IN /\ calls' = Append(calls, CallEntry(TRUE, res))
        /\ browserQueryClient' = res.bqc
        /\ IF res.outcome = "throw"
           THEN /\ heap' = res.heap
                /\ req' = [req EXCEPT ![r].page = page, ![r].pc = "failed",
                                      ![r].shell = StreamingDemoPage(page)]
           ELSE /\ heap' = HeapAfterIntent(res.heap, res.ref, opts, r,
                                 WantsPrefetch(res.heap, res.ref, opts))
                /\ req' = [req EXCEPT ![r].page = page, ![r].pc = "awaiting",
                                      ![r].shell = StreamingDemoPage(page),
                                      ![r].queryClient = res.ref,
                                      ![r].prefetchedOn = res.ref,
                                      ![r].prefetchKey = opts.queryKey,
                                      ![r].used = @ \cup {res.ref}]
  /\ UNCHANGED <<csr, endpoint, renders, now, provider, mounted>>

\* the part after the await with dehydrate(getQueryClient()) in place of
\* dehydrate(queryClient)
PageResume_other_client(r, page, delay) ==
  /\ req[r].pc = "awaiting"
  /\ req[r].page = page
  /\ ~heap[req[r].queryClient].queries[QueryKey(delay)].fetching
  /\ heap' = makeQueryClient(heap).heap
  /\ req' = [req EXCEPT ![r].pc = "rendered",
                        ![r].dehydratedFrom = makeQueryClient(heap).ref,
                        ![r].state = dehydrate(heap', makeQueryClient(heap).ref),
                        ![r].used = @ \cup {makeQueryClient(heap).ref}]
  /\ UNCHANGED <<csr, endpoint, renders, browserQueryClient, calls, now, provider, mounted>>

\* the part after the await, once prefetchQuery has settled:
\*   <HydrationBoundary state={dehydrate(queryClient)}>
PageResume(r, page, delay) ==
  /\ req[r].pc = "awaiting"
  /\ req[r].page = page
  /\ ~heap[req[r].queryClient].queries[QueryKey(delay)].fetching
  /\ req' = [req EXCEPT ![r].pc = "rendered",
                        ![r].dehydratedFrom = req[r].queryClient,
                        ![r].state = dehydrate(heap, req[r].queryClient)]
  /\ UNCHANGED <<csr, endpoint, renders, heap, browserQueryClient, calls, now, provider, mounted>>

\* SSRDemoPage, an async server component, up to its await
SSRDemoPage_start(r, ctorOk) ==
  /\ req[r].page = "none"
  /\ PageStart(r, "ssr", SSRDelay, ctorOk)

\* SSRDemoPage that calls prefetchQuery without await
SSRDemoPage_resume_no_await(r) ==
  /\ req[r].pc = "awaiting"
  /\ req[r].page = "ssr"
  /\ req' = [req EXCEPT ![r].pc = "rendered",
                        ![r].dehydratedFrom = req[r].queryClient,
                        ![r].state = dehydrate(heap, req[r].queryClient)]
  /\ UNCHANGED <<csr, heap, browserQueryClient, calls, now, provider, mounted,
                 endpoint, renders>>

\* SSRDemoPage after its await
SSRDemoPage_resume(r) == PageResume(r, "ssr", SSRDelay)

\* PostListWithData, the async child of StreamingDemoPage's Suspense
\* boundary, up to its await
PostListWithData_start(r, ctorOk) ==
  /\ req[r].page = "none"
  /\ PageStart(r, "streaming", StreamingDelay, ctorOk)

PostListWithData_resume(r) == PageResume(r, "streaming", StreamingDelay)

\* ------------------------------------- server render of client components

\* QueryProvider rendered on the server for request r:
\*   const [queryClient] = useState(getQueryClient)
QueryProvider_server(r, ctorOk) ==
  /\ req[r].provider = Undefined
  /\ req[r].pc # "failed"
  /\ MayRun(r)
  /\ Len(calls) < MaxCalls
  /\ LET res == getQueryClient(TRUE, ctorOk)
     IN /\ calls' = Append(calls, CallEntry(TRUE, res))
        /\ browserQueryClient' = res.bqc
        /\ heap' = res.heap
        /\ req' = IF res.outcome = "throw"
                  THEN [req EXCEPT ![r].pc = "failed"]
                  ELSE [req EXCEPT ![r].provider = res.ref]
  /\ UNCHANGED <<csr, endpoint, renders, now, provider, mounted>>

\* the delay of the list component of a page, and the hook it uses
ListDelay(page) ==
  IF page = "ssr" THEN SSRListDelay ELSE StreamingListDelay

ListComponent(page) ==
  IF page = "ssr" THEN "SSRPostList" ELSE "StreamingPostList"

\* does the list component's hook want to fetch on client c: SSRPostList
\* calls usePosts(1500), StreamingPostList calls usePostsSuspense(2000)
ListWants(h, c, page, isSrv) ==
  IF page = "ssr"
  THEN WantsOnMount(h, c, postsQueryOptions(ListDelay(page)), isSrv)
  ELSE WantsOnSuspense(h, c, postsQueryOptions(ListDelay(page)), isSrv)

\* StreamingPostList with usePosts in place of usePostsSuspense: its body
\* runs while the query is loading
ListShows_useQuery(page, q) ==
  IF q.hasData THEN "data" ELSE "loading"

\* what the list component shows with the query q: SSRPostList returns the
\* spinner while isLoading; in StreamingPostList useSuspenseQuery suspends
\* when there is no data, so that the body runs with the data only
ListShows(page, q) ==
  IF q.hasData THEN "data"
  ELSE IF page = "ssr" THEN "loading" ELSE "suspended"

\* HydrationBoundary and the list component (SSRPostList, StreamingPostList)
\* rendered on the server for request r, inside the request's QueryProvider:
\* the dehydrated state is hydrated into the provider's client and the list's
\* hook reads the provider's client
HydrationBoundary_server(r) ==
  /\ req[r].pc = "rendered"
  /\ req[r].provider # Undefined
  /\ req[r].list = "none"
  /\ LET c == req[r].provider
         page == req[r].page
         opts == postsQueryOptions(ListDelay(page))
         h1 == hydrate(heap, c, req[r].state)
     IN /\ heap' = HeapAfterIntent(h1, c, opts, r, ListWants(h1, c, page, TRUE))
        /\ req' = [req EXCEPT ![r].used = @ \cup {c},
                     ![r].listKey = opts.queryKey,
                     ![r].list = ListShows(page, h1[c].queries[opts.queryKey])]
  /\ UNCHANGED <<csr, endpoint, renders, browserQueryClient, calls, now, provider, mounted>>

\* StreamingPostList suspended on the server renders again once the fetch
\* its hook started has settled: with the data, or the hook throws the error
StreamingPostList_retry(r) ==
  /\ req[r].page = "streaming"
  /\ req[r].list = "suspended"
  /\ ~heap[req[r].provider].queries[req[r].listKey].fetching
  /\ req' = [req EXCEPT ![r].list =
               IF heap[req[r].provider].queries[req[r].listKey].hasData
               THEN "data" ELSE "error"]
  /\ UNCHANGED <<csr, heap, browserQueryClient, calls, now, provider, mounted,
                 endpoint, renders>>

\* ---------------------------------------------------------- the browser

\* QueryProvider mounts in the browser:
\*   const [queryClient] = useState(getQueryClient)
QueryProvider_mount(ctorOk) ==
  /\ provider = Undefined
  /\ Len(calls) < MaxCalls
  /\ LET res == getQueryClient(FALSE, ctorOk)
     IN /\ calls' = Append(calls, CallEntry(FALSE, res))
        /\ browserQueryClient' = res.bqc
        /\ heap' = res.heap
        /\ provider' = res.ref
        /\ renders' = IF res.outcome = "throw" THEN 0 ELSE 1
  /\ UNCHANGED <<csr, endpoint, now, req, mounted>>

\* QueryProvider with <QueryClientProvider client={getQueryClient()}>
QueryProvider_rerender_calls ==
  /\ provider # Undefined
  /\ renders < MaxRenders
  /\ Len(calls) < MaxCalls
  /\ LET res == getQueryClient(FALSE, TRUE)
     IN /\ calls' = Append(calls, CallEntry(FALSE, res))
        /\ browserQueryClient' = res.bqc
        /\ heap' = res.heap
        /\ provider' = res.ref
  /\ renders' = renders + 1
  /\ UNCHANGED <<csr, now, req, mounted, endpoint>>

\* the mounted QueryProvider renders again: useState returns the state of
\* the mount and does not run its initializer
QueryProvider_rerender ==
  /\ provider # Undefined
  /\ renders < MaxRenders
  /\ renders' = renders + 1
  /\ UNCHANGED <<csr, heap, browserQueryClient, calls, now, req, provider, mounted,
                 endpoint>>

\* QueryProvider unmounts, and its children with it
QueryProvider_unmount ==
  /\ provider # Undefined
  /\ provider' = Undefined
  /\ mounted' = {}
  /\ renders' = 0
  /\ csr' = NoCSR
  /\ UNCHANGED <<endpoint, heap, browserQueryClient, calls, now, req>>

ComponentPage(comp) ==
  IF comp = "StreamingPostList" THEN "streaming" ELSE "ssr"

\* the hook's result on the component's first render and what the component
\* shows with it; doc is the request whose document the component is part of
HookResult(comp, key, doc, q) ==
  [comp |-> comp, key |-> key, doc |-> doc, isFetching |-> q.fetching,
   isLoading |-> q.fetching /\ ~q.hasData,
   shows |-> ListShows(ComponentPage(comp), q)]

\* a hook of a component mounting in the browser registers its query on the
\* client of the enclosing QueryProvider
MountHook(h, comp, delay, doc, wants) ==
  LET opts == postsQueryOptions(delay)
      h2 == HeapAfterIntent(h, provider, opts, Session, wants)
  IN /\ heap' = h2
     /\ mounted' = mounted \cup
          {HookResult(comp, opts.queryKey, doc,
                      h2[provider].queries[opts.queryKey])}

\* CSRDemoPage mounts: usePosts(1500)
CSRDemoPage_mount ==
  /\ provider # Undefined
  /\ mounted = {}
  /\ MountHook(heap, "CSRDemoPage", CSRDelay, NoOne,
               WantsOnMount(heap, provider, postsQueryOptions(CSRDelay), FALSE))
  /\ csr' = Rendered(NoCSR, heap'[provider].queries[QueryKey(CSRDelay)])
  /\ UNCHANGED <<endpoint, renders, browserQueryClient, calls, now, req, provider>>

\* CSRDemoPage renders again because its hook's result changed
CSRDemoPage_render ==
  /\ csr.mounted
  /\ LET q == heap[provider].queries[QueryKey(CSRDelay)]
     IN /\ Rendered(csr, q) # csr
        /\ csr' = Rendered(csr, q)
  /\ UNCHANGED <<endpoint, renders, heap, browserQueryClient, calls, now, req, provider, mounted>>

\* CSRDemoPage's useEffect, run after a render with the isLoading, startTime
\* and endTime of that render
CSRDemoPage_effect ==
  /\ csr.mounted
  /\ \/ /\ csr.isLoading /\ ~Truthy(csr.startTime)
        /\ csr' = [csr EXCEPT !.startTime = now]
     \/ /\ ~(csr.isLoading /\ ~Truthy(csr.startTime))
        /\ ~csr.isLoading /\ Truthy(csr.startTime) /\ ~Truthy(csr.endTime)
        /\ csr' = [csr EXCEPT !.endTime = now]
  /\ UNCHANGED <<endpoint, renders, heap, browserQueryClient, calls, now, req, provider, mounted>>

\* the browser renders the page delivered by request r: HydrationBoundary
\* hydrates the dehydrated state into the provider's client, then the list
\* component mounts
HydrationBoundary_browser(r) ==
  /\ provider # Undefined
  /\ mounted = {}
  /\ req[r].pc = "rendered"
  /\ LET page == req[r].page
         h1 == hydrate(heap, provider, req[r].state)
     IN MountHook(h1, ListComponent(page), ListDelay(page), r,
                  ListWants(h1, provider, page, FALSE))
  /\ UNCHANGED <<csr, endpoint, renders, browserQueryClient, calls, now, req, provider>>

\* navigation away from the page: its components unmount
Page_unmount ==
  /\ mounted # {}
  /\ mounted' = {}
  /\ csr' = NoCSR
  /\ UNCHANGED <<endpoint, renders, heap, browserQueryClient, calls, now, req, provider>>

\* a click on the refresh button the page shows, with setStartTime(Date.now())
\* and setEndTime(null) only
handleRefresh_no_refetch ==
  /\ csr.mounted
  /\ ~csr.button.disabled
  /\ csr' = [csr EXCEPT !.startTime = now, !.endTime = Null]
  /\ UNCHANGED <<endpoint, renders, heap, browserQueryClient, calls, now, req, provider, mounted>>

\* a click on the refresh button the page shows (a disabled button fires no
\* click): setStartTime(Date.now()), setEndTime(null), refetch(), and the
\* render the state changes and the hook's new result cause
handleRefresh ==
  /\ csr.mounted
  /\ ~csr.button.disabled
  /\ LET h2 == HeapAfterIntent(heap, provider, postsQueryOptions(CSRDelay),
                               Session, TRUE)
     IN /\ heap' = h2
        /\ csr' = Rendered([csr EXCEPT !.startTime = now, !.endTime = Null],
                           h2[provider].queries[QueryKey(CSRDelay)])
  /\ UNCHANGED <<endpoint, renders, browserQueryClient, calls, now, req, provider, mounted>>

\* ------------------------------------------------- fetches and the clock

\* the query after its fetch succeeded at time t: the endpoint has answered
\* the request after the delay it read from the request's parameter
Succeeded(q, t) ==
  [q EXCEPT !.status = "success", !.hasData = TRUE, !.dataUpdatedAt = t,
            !.by = q.fetcher, !.via = "fetch", !.fetching = FALSE,
            !.inflight = FALSE, !.failureCount = 0,
            !.servedDelay = parseInt(DelayText(q.request.delay))]

\* a library that retries while failureCount <= retry
Failed_once_more(q, retry) ==
  IF q.failureCount <= retry
  THEN [q EXCEPT !.inflight = FALSE, !.failureCount = @ + 1]
  ELSE [q EXCEPT !.status = "error", !.fetching = FALSE, !.inflight = FALSE,
                 !.failureCount = @ + 1]

\* the query after a request of its fetch failed: the library retries while
\* failureCount < retry, then the query is in error
Failed(q, retry) ==
  IF q.failureCount < retry
  THEN [q EXCEPT !.inflight = FALSE, !.failureCount = @ + 1]
  ELSE [q EXCEPT !.status = "error", !.fetching = FALSE, !.inflight = FALSE,
                 !.failureCount = @ + 1]

\* the request of a fetch in flight is answered
FetchSucceeds(c, k) ==
  /\ heap[c].queries[k].inflight
  /\ heap' = [heap EXCEPT ![c].queries[k] = Succeeded(@, now)]
  /\ UNCHANGED <<csr, endpoint, renders, browserQueryClient, calls, now, req, provider, mounted>>

\* the request of a fetch in flight fails
FetchFails(c, k) ==
  /\ heap[c].queries[k].inflight
  /\ heap' = [heap EXCEPT ![c].queries[k] =
                             Failed(@, heap[c].defaultOptions.retry)]
  /\ UNCHANGED <<csr, endpoint, renders, browserQueryClient, calls, now, req, provider, mounted>>

\* after the retry delay the library invokes the queryFn again
FetchRetry(c, k) ==
  /\ heap[c].queries[k].fetching
  /\ ~heap[c].queries[k].inflight
  /\ heap' = [heap EXCEPT ![c].queries[k].inflight = TRUE]
  /\ UNCHANGED <<csr, endpoint, renders, browserQueryClient, calls, now, req, provider, mounted>>

Tick ==
  /\ now + TickMs <= MaxNow
  /\ now' = now + TickMs
  /\ UNCHANGED <<csr, endpoint, renders, heap, browserQueryClient, calls, req, provider, mounted>>

\* ----------------------------------------------------- the mock endpoint

\* the calls of GET /api/posts the model follows
MaxGets == 2

\* const posts = [...]: the mock data (the authors' names are left out)
posts ==
  <<[id |-> 1, title |-> "TanStack Query", createdAt |-> "2025-01-15"],
    [id |-> 2, title |-> "CSR vs SSR", createdAt |-> "2025-01-20"],
    [id |-> 3, title |-> "Next.js App Router", createdAt |-> "2025-02-01"],
    [id |-> 4, title |-> "React 19", createdAt |-> "2025-02-10"],
    [id |-> 5, title |-> "Hydration", createdAt |-> "2025-02-15"]>>

\* the body of the response with a count that is not taken from the list
ResponseBody_stale_count(timestamp) ==
  [posts |-> posts,
   meta |-> [fetchedAt |-> timestamp, totalCount |-> 4,
             executedOn |-> "server"]]

\* NextResponse.json({posts, meta: {fetchedAt, totalCount, executedOn}})
ResponseBody(timestamp) ==
  [posts |-> posts,
   meta |-> [fetchedAt |-> timestamp, totalCount |-> Len(posts),
             executedOn |-> "server"]]

\* GET up to its await: the delay is parsed and the timer is set
GET_request(param) ==
  /\ Len(endpoint.responses) + Cardinality(endpoint.pending) < MaxGets
  /\ LET delay == parseInt(DelayText(param))
         id == Len(endpoint.responses) + Cardinality(endpoint.pending) + 1
     IN endpoint' = [endpoint EXCEPT !.pending = @ \cup
                       {[id |-> id, param |-> param, startedAt |-> now,
                         due |-> now + TimerDelay(delay)]}]
  /\ UNCHANGED <<csr, heap, browserQueryClient, calls, now, req, provider, mounted,
                 renders>>

\* GET after its await, once the timer has fired: the response is sent
GET_respond(g) ==
  /\ g \in endpoint.pending
  /\ now >= g.due
  /\ endpoint' = [pending |-> endpoint.pending \ {g},
                  responses |-> Append(endpoint.responses,
                     [id |-> g.id, param |-> g.param,
                      startedAt |-> g.startedAt, respondedAt |-> now,
                      body |-> ResponseBody(now)])]
  /\ UNCHANGED <<csr, heap, browserQueryClient, calls, now, req, provider, mounted,
                 renders>>

\* time passes until the timer of a pending call fires
TimerFires(g) ==
  /\ g \in endpoint.pending
  /\ now < g.due
  /\ \A g2 \in endpoint.pending : g2.due >= g.due
  /\ now' = g.due
  /\ UNCHANGED <<csr, heap, browserQueryClient, calls, req, provider, mounted,
                 endpoint, renders>>

\* ------------------------------------------------------------------ Next

\* the registry and the server: every caller of getQueryClient and the
\* requests' pages, with every request to the endpoint answered
Next ==
  \/ \E r \in Reqs, ctorOk \in BOOLEAN : SSRDemoPage_start(r, ctorOk)
  \/ \E r \in Reqs : SSRDemoPage_resume(r)
  \/ \E r \in Reqs, ctorOk \in BOOLEAN : PostListWithData_start(r, ctorOk)
  \/ \E r \in Reqs : PostListWithData_resume(r)
  \/ \E r \in Reqs, ctorOk \in BOOLEAN : QueryProvider_server(r, ctorOk)
  \/ \E r \in Reqs : HydrationBoundary_server(r)
  \/ \E ctorOk \in BOOLEAN : QueryProvider_mount(ctorOk)
  \/ QueryProvider_unmount
  \/ \E c \in 1 .. Len(heap), k \in QueryKeys : FetchSucceeds(c, k)

Spec == Init /\ [][Next]_vars

\* the caches of the requests' clients and of a session that fetches, with
\* every construction succeeding and every request to the endpoint answered
IsolationNext ==
  \/ \E r \in Reqs, ctorOk \in {TRUE} : SSRDemoPage_start(r, ctorOk)
  \/ \E r \in Reqs : SSRDemoPage_resume(r)
  \/ \E r \in Reqs, ctorOk \in {TRUE} : PostListWithData_start(r, ctorOk)
  \/ \E r \in Reqs : PostListWithData_resume(r)
  \/ \E r \in Reqs, ctorOk \in {TRUE} : QueryProvider_server(r, ctorOk)
  \/ \E r \in Reqs : HydrationBoundary_server(r)
  \/ \E ctorOk \in {TRUE} : QueryProvider_mount(ctorOk)
  \/ QueryProvider_unmount
  \/ CSRDemoPage_mount
  \/ Page_unmount
  \/ \E c \in 1 .. Len(heap), k \in QueryKeys : FetchSucceeds(c, k)

IsolationSpec == Init /\ [][IsolationNext]_vars

\* one browser session over time and the page of the first request, with
\* failing constructions and failing requests to the endpoint
SessionNext ==
  \/ \E ctorOk \in BOOLEAN : SSRDemoPage_start(1, ctorOk)
  \/ SSRDemoPage_resume(1)
  \/ \E ctorOk \in BOOLEAN : PostListWithData_start(1, ctorOk)
  \/ PostListWithData_resume(1)
  \/ \E ctorOk \in BOOLEAN : QueryProvider_mount(ctorOk)
  \/ QueryProvider_unmount
  \/ CSRDemoPage_mount
  \/ \E r \in Reqs : HydrationBoundary_browser(r)
  \/ Page_unmount
  \/ CSRDemoPage_render
  \/ handleRefresh
  \/ \E c \in 1 .. Len(heap), k \in QueryKeys : FetchSucceeds(c, k)
  \/ \E c \in 1 .. Len(heap), k \in QueryKeys : FetchFails(c, k)
  \/ \E c \in 1 .. Len(heap), k \in QueryKeys : FetchRetry(c, k)
  \/ Tick

SessionSpec == Init /\ [][SessionNext]_vars

\* one browser session that shows the CSR page, over time, with failing
\* requests to the endpoint
CSRNext ==
  \/ \E ctorOk \in {TRUE} : QueryProvider_mount(ctorOk)
  \/ CSRDemoPage_mount
  \/ CSRDemoPage_render
  \/ CSRDemoPage_effect
  \/ handleRefresh
  \/ Page_unmount
  \/ \E c \in 1 .. Len(heap), k \in QueryKeys : FetchSucceeds(c, k)
  \/ \E c \in 1 .. Len(heap), k \in QueryKeys : FetchFails(c, k)
  \/ \E c \in 1 .. Len(heap), k \in QueryKeys : FetchRetry(c, k)
  \/ Tick

CSRSpec == Init /\ [][CSRNext]_vars

\* the handling of the first request on the server, with failing
\* constructions and failing requests to the endpoint, and the browser that
\* renders its document
RequestNext ==
  \/ \E ctorOk \in BOOLEAN : SSRDemoPage_start(1, ctorOk)
  \/ SSRDemoPage_resume(1)
  \/ \E ctorOk \in BOOLEAN : PostListWithData_start(1, ctorOk)
  \/ PostListWithData_resume(1)
  \/ \E ctorOk \in BOOLEAN : QueryProvider_server(1, ctorOk)
  \/ HydrationBoundary_server(1)
  \/ StreamingPostList_retry(1)
  \/ \E ctorOk \in BOOLEAN : QueryProvider_mount(ctorOk)
  \/ HydrationBoundary_browser(1)
  \/ Page_unmount
  \/ \E c \in 1 .. Len(heap), k \in QueryKeys : FetchSucceeds(c, k)
  \/ \E c \in 1 .. Len(heap), k \in QueryKeys : FetchFails(c, k)
  \/ \E c \in 1 .. Len(heap), k \in QueryKeys : FetchRetry(c, k)

RequestSpec == Init /\ [][RequestNext]_vars

\* the rendering of the first request's page on the server, over time
RenderNext ==
  \/ \E ctorOk \in BOOLEAN : SSRDemoPage_start(1, ctorOk)
  \/ SSRDemoPage_resume(1)
  \/ \E ctorOk \in BOOLEAN : PostListWithData_start(1, ctorOk)
  \/ PostListWithData_resume(1)
  \/ \E ctorOk \in BOOLEAN : QueryProvider_server(1, ctorOk)
  \/ HydrationBoundary_server(1)
  \/ StreamingPostList_retry(1)
  \/ \E c \in 1 .. Len(heap), k \in QueryKeys : FetchSucceeds(c, k)
  \/ \E c \in 1 .. Len(heap), k \in QueryKeys : FetchFails(c, k)
  \/ \E c \in 1 .. Len(heap), k \in QueryKeys : FetchRetry(c, k)
  \/ Tick

\* a request in flight is answered or fails
FetchSettles ==
  \E c \in 1 .. Len(heap), k \in QueryKeys :
    FetchSucceeds(c, k) \/ FetchFails(c, k)

\* the server runs what can run: an async component continues once the
\* promise it awaits has settled, the renderer renders every component of
\* the tree and renders a suspended one again once its promise has settled,
\* the retry timer fires, and every request to the endpoint ends
RenderSpec ==
  /\ Init
  /\ [][RenderNext]_vars
  /\ WF_vars(SSRDemoPage_resume(1))
  /\ WF_vars(PostListWithData_resume(1))
  /\ WF_vars(\E ctorOk \in BOOLEAN : QueryProvider_server(1, ctorOk))
  /\ WF_vars(HydrationBoundary_server(1))
  /\ WF_vars(StreamingPostList_retry(1))
  /\ WF_vars(FetchSettles)
  /\ WF_vars(\E c \in 1 .. Len(heap), k \in QueryKeys : FetchRetry(c, k))

\* the QueryProvider of the browser over its mounts and renders, beside the
\* QueryProviders rendered on the server
ProviderNext ==
  \/ \E ctorOk \in BOOLEAN : QueryProvider_mount(ctorOk)
  \/ QueryProvider_rerender
  \/ QueryProvider_unmount
  \/ \E r \in Reqs, ctorOk \in BOOLEAN : QueryProvider_server(r, ctorOk)

ProviderSpec == Init /\ [][ProviderNext]_vars

\* the mock endpoint called by any HTTP client
EndpointNext ==
  \/ \E param \in DelayParams : GET_request(param)
  \/ \E g \in endpoint.pending : GET_respond(g)
  \/ \E g \in endpoint.pending : TimerFires(g)

EndpointSpec == Init /\ [][EndpointNext]_vars

\* ================================================================ claims

Calls == 1 .. Len(calls)

\* the calls that returned an instance, by environment
SessionReturns == {i \in Calls : ~calls[i].isServer /\ calls[i].outcome = "return"}

RequestReturns == {i \in Calls : calls[i].isServer /\ calls[i].outcome = "return"}

\* the step is a call of getQueryClient()
IsCall == Len(calls') = Len(calls) + 1

LastCall == calls'[Len(calls')]

\* C1: in the browser every call of getQueryClient() that returns, returns
\* the instance the first such call returned.
C1_SessionReuse ==
  \A i, j \in SessionReturns : calls[i].ref = calls[j].ref

\* three browser calls have returned, with a server call between them
C1_Witness ==
  \E i, j, k \in SessionReturns, s \in RequestReturns :
    i < s /\ s < j /\ j < k

\* C2: on the server any two calls of getQueryClient() return two distinct
\* instances.
C2_RequestDistinct ==
  \A i, j \in RequestReturns : i # j => calls[i].ref # calls[j].ref

\* three server calls in immediate succession have returned
C2_Witness ==
  \E i \in RequestReturns : i + 1 \in RequestReturns /\ i + 2 \in RequestReturns

\* C3: an instance returned on the server is never an instance returned in
\* the browser, in whatever order the calls are made.
C3_Independence ==
  \A i \in RequestReturns, j \in SessionReturns : calls[i].ref # calls[j].ref

\* a server call returned before the first browser call and another after it
C3_Witness ==
  \E i, k \in RequestReturns, j \in SessionReturns : i < j /\ j < k

\* C4: the singleton is constructed once and browserQueryClient is written
\* once, by the first browser call that constructs; afterwards it is only
\* read, never reset or replaced.
C4_SingleWrite ==
  [][/\ browserQueryClient # Undefined =>
          browserQueryClient' = browserQueryClient
     /\ browserQueryClient' # browserQueryClient =>
          /\ IsCall
          /\ ~LastCall.isServer
          /\ LastCall.made = 1
          /\ LastCall.ref = browserQueryClient'
     /\ (IsCall /\ ~LastCall.isServer /\ browserQueryClient # Undefined) =>
          LastCall.made = 0
    ]_vars

\* the singleton exists and a later browser call has read it
C4_Witness ==
  /\ browserQueryClient # Undefined
  /\ \E i, j \in SessionReturns :
       i < j /\ calls[i].made = 1 /\ calls[j].made = 0

\* C5: a server call leaves browserQueryClient unchanged; the instance it
\* constructs is not the stored one and no later call returns it.
C5_RequestFrame ==
  [][(IsCall /\ LastCall.isServer) =>
       /\ browserQueryClient' = browserQueryClient
       /\ LastCall.outcome = "return" =>
            /\ LastCall.ref # browserQueryClient'
            /\ \A i \in Calls : calls[i].ref # LastCall.ref
    ]_vars

\* a server call was made while the singleton was stored, and a browser call
\* followed it
C5_Witness ==
  \E i, k \in SessionReturns, j \in RequestReturns : i < j /\ j < k

\* C7: every instance carries staleTime 60000, refetchOnWindowFocus false and
\* retry 1, at its construction and after any operations.
C7_FixedConfiguration ==
  /\ \A c \in 1 .. Len(heap) :
       /\ heap[c].defaultOptions.staleTime = 60000
       /\ heap[c].defaultOptions.refetchOnWindowFocus = FALSE
       /\ heap[c].defaultOptions.retry = 1
  /\ \A i \in SessionReturns \cup RequestReturns : calls[i].ref \in 1 .. Len(heap)

\* instances of both environments exist, a query has failed on one and
\* succeeded on the other, and time has passed
C7_Witness ==
  /\ now > 0
  /\ \E i \in RequestReturns :
       \E k \in QueryKeys : heap[calls[i].ref].queries[k].status = "error"
  /\ \E i \in SessionReturns :
       \E k \in QueryKeys : heap[calls[i].ref].queries[k].status = "success"

\* C10: a call whose construction fails ends by throwing: it returns no
\* instance, constructs no second time, and stores nothing.
C10_FailurePropagates ==
  [][(IsCall /\ LastCall.ctorThrew > 0) =>
       /\ LastCall.outcome = "throw"
       /\ LastCall.ref = Undefined
       /\ LastCall.made = 1
       /\ browserQueryClient' = browserQueryClient
       /\ Len(heap') = Len(heap)
    ]_vars

\* constructions have failed on the server and in the browser
C10_Witness ==
  /\ \E i \in Calls : calls[i].isServer /\ calls[i].ctorThrew > 0
  /\ \E i \in Calls : ~calls[i].isServer /\ calls[i].ctorThrew > 0

\* the clients request r has obtained
ClientsOf(r) == {req[r].queryClient, req[r].provider} \ {Undefined}

\* C6: the cache of a client of a request holds only data that request
\* fetched, and the singleton's cache holds no data a request fetched (unless
\* the request's dehydrated state was hydrated into it).
C6_RequestIsolation ==
  /\ \A r \in Reqs : \A c \in ClientsOf(r) \cup req[r].used :
       \A k \in QueryKeys :
         /\ heap[c].queries[k].hasData => heap[c].queries[k].by = r
         /\ heap[c].queries[k].fetching => heap[c].queries[k].fetcher = r
  /\ browserQueryClient # Undefined =>
       \A k \in QueryKeys :
         /\ heap[browserQueryClient].queries[k].hasData =>
              \/ heap[browserQueryClient].queries[k].by = Session
              \/ heap[browserQueryClient].queries[k].via = "hydrate"
         /\ heap[browserQueryClient].queries[k].fetching =>
              heap[browserQueryClient].queries[k].fetcher = Session

\* two requests and the session each hold data of the same key at once
C6_Witness ==
  /\ browserQueryClient # Undefined
  /\ heap[browserQueryClient].queries[QueryKey(SSRDelay)].hasData
  /\ \A r \in {1, 2} :
       /\ req[r].prefetchedOn # Undefined
       /\ heap[req[r].prefetchedOn].queries[QueryKey(SSRDelay)].hasData

\* the key of the query a browser component registers
ComponentKey(comp) ==
  IF comp = "StreamingPostList" THEN QueryKey(StreamingListDelay)
  ELSE IF comp = "CSRDemoPage" THEN QueryKey(CSRDelay)
  ELSE QueryKey(SSRListDelay)

\* the step issues a GET /api/posts
IssuesRequest ==
  \E c \in 1 .. Len(heap) : \E k \in QueryKeys :
    heap'[c].queries[k].inflight /\ ~heap[c].queries[k].inflight

\* the singleton holds data of key k that a fetch of the session resolved
\* less than 60 s ago
FetchedFresh(k) ==
  /\ browserQueryClient # Undefined
  /\ heap[browserQueryClient].queries[k].hasData
  /\ heap[browserQueryClient].queries[k].via = "fetch"
  /\ now - heap[browserQueryClient].queries[k].dataUpdatedAt < 60000

\* C8: a component that registers a key whose fetch has resolved on the
\* singleton less than 60 s before is served from the cache: its hook does
\* not load and the step issues no request to the endpoint.
C8_FreshFromCache ==
  [][\A m \in mounted' \ mounted :
       FetchedFresh(ComponentKey(m.comp)) => (~m.isLoading /\ ~IssuesRequest)
    ]_vars

\* SSRPostList was mounted, without a fetch, on data that a fetch of the
\* session (by CSRDemoPage, same key) had resolved 30 s before
C8_Witness ==
  /\ \E m \in mounted : m.comp = "SSRPostList" /\ ~m.isFetching
  /\ browserQueryClient # Undefined
  /\ LET q == heap[browserQueryClient].queries[QueryKey(SSRDelay)]
     IN /\ q.hasData /\ q.via = "fetch" /\ q.by = Session /\ ~q.fetching
        /\ now - q.dataUpdatedAt > 0
        /\ now - q.dataUpdatedAt < 60000

\* C9 as stated: one instance takes every fetch intent of a request, and the
\* instance QueryProvider obtains on the server takes part in none.
C9_SingleInstance ==
  \A r \in Reqs :
    /\ req[r].pc = "rendered" => req[r].dehydratedFrom = req[r].prefetchedOn
    /\ Cardinality(req[r].used) <= 1
    /\ req[r].provider # Undefined => req[r].provider \notin req[r].used

\* C9 amended: the page dehydrates the instance it prefetched on; the
\* instances used by a request's queries are that instance and the one the
\* request's QueryProvider obtained, never an instance of another request nor
\* the singleton.
C9_OwnInstances ==
  \A r \in Reqs :
    /\ req[r].pc = "rendered" =>
         /\ req[r].dehydratedFrom = req[r].prefetchedOn
         /\ req[r].prefetchedOn # Undefined
    /\ req[r].used \subseteq ({req[r].prefetchedOn, req[r].provider} \ {Undefined})
    /\ browserQueryClient \notin req[r].used
    /\ \A r2 \in Reqs : r2 # r => req[r].used \cap req[r2].used = {}

\* a request has prefetched, dehydrated and rendered its list with the data
\* on two instances, while another request prefetches and the singleton
\* exists
C9_Witness ==
  /\ browserQueryClient # Undefined
  /\ req[1].pc = "rendered"
  /\ req[1].list = "data"
  /\ Cardinality(req[1].used) = 2
  /\ req[2].prefetchedOn # Undefined

\* the responses the endpoint has sent
Responses == {endpoint.responses[i] : i \in 1 .. Len(endpoint.responses)}

\* the time the endpoint waited before it sent the response
Waited(res) == res.respondedAt - res.startedAt

\* C11: every response of GET /api/posts, for every delay and after any
\* number of earlier calls, has totalCount equal to the length of its posts
\* list (5), executedOn "server", and the same fixed ordered list of posts.
C11_FixedResponse ==
  \A res \in Responses :
    /\ res.body.meta.totalCount = Len(res.body.posts)
    /\ res.body.meta.totalCount = 5
    /\ res.body.meta.executedOn = "server"
    /\ [i \in 1 .. Len(res.body.posts) |-> res.body.posts[i].id] =
         <<1, 2, 3, 4, 5>>
    /\ \A res2 \in Responses : res2.body.posts = res.body.posts

\* two calls with different delays were answered, the second one made after
\* the first was answered
C11_Witness ==
  \E res, res2 \in Responses :
    /\ res.param = Param(NumberToString(SSRDelay))
    /\ res2.param = NoParam
    /\ res2.startedAt >= res.respondedAt
    /\ res2.body.meta.fetchedAt > res.body.meta.fetchedAt

\* C12: the endpoint never responds before the requested delay has elapsed:
\* a call with delay=d is answered after a wait of at least d ms (d = 1500,
\* 2000, 3000000000), a call without the parameter after at least 1000 ms.
C12_WaitsRequestedDelay ==
  \A res \in Responses :
    /\ res.param = NoParam => Waited(res) >= 1000
    /\ res.param = Param(<<"1", "5", "0", "0">>) => Waited(res) >= 1500
    /\ res.param = Param(<<"2", "0", "0", "0">>) => Waited(res) >= 2000
    /\ res.param = Param(ThreeBillion) => Waited(res) > TimeoutMax

\* the text of the delay in the URL of a request for key k
KeyDelayText(k) ==
  IF k = <<"posts", 1500>> THEN <<"1", "5", "0", "0">>
  ELSE <<"2", "0", "0", "0">>

\* C13: postsQueryOptions(d) has the key ['posts', d] and its fetch requests
\* the endpoint with that delay d, so an entry of the cache holds only data
\* requested with the delay of its key; the key prefetched on the server for
\* the SSR page (1500) and the streaming page (2000) is the key the list
\* component of the page subscribes to.
C13_KeyMatchesDelay ==
  /\ \A d \in Delays : postsQueryOptions(d).queryKey = <<"posts", d>>
  /\ \A c \in 1 .. Len(heap) : \A k \in QueryKeys :
       /\ heap[c].queries[k].inflight =>
            heap[c].queries[k].request =
              [path |-> "/api/posts", delay |-> Param(KeyDelayText(k))]
       /\ heap[c].queries[k].hasData =>
            heap[c].queries[k].servedDelay = Int32(k[2])
  /\ \A r \in Reqs :
       /\ (req[r].page = "ssr" /\ req[r].prefetchKey # NoKey) =>
            req[r].prefetchKey = <<"posts", 1500>>
       /\ (req[r].page = "streaming" /\ req[r].prefetchKey # NoKey) =>
            req[r].prefetchKey = <<"posts", 2000>>
  /\ \A m \in mounted : m.doc \in Reqs => m.key = req[m.doc].prefetchKey

\* the singleton holds data of both keys, one fetched by the session and one
\* hydrated from the streaming page's document, whose list is mounted
C13_Witness ==
  /\ browserQueryClient # Undefined
  /\ heap[browserQueryClient].queries[<<"posts", 1500>>].via = "fetch"
  /\ heap[browserQueryClient].queries[<<"posts", 2000>>].via = "hydrate"
  /\ \E m \in mounted : m.comp = "StreamingPostList" /\ m.doc = 1

\* the SSRPostList components mounted in the browser
SSRPostLists == {m \in mounted : m.comp = "SSRPostList"}

HydratedFresh(r, k) ==
  /\ r \in Reqs
  /\ req[r].state[k].present
  /\ now - req[r].state[k].dataUpdatedAt < 60000

\* C15: when the dehydrated state of the server has been hydrated into the
\* session's client, the hook of the list component finds the data of its
\* key in the cache and, while less than 60 s have passed since the server's
\* fetch, the step issues no request to the endpoint.
C15_HydratedNoRefetch ==
  [][\A m \in mounted' \ mounted :
       HydratedFresh(m.doc, m.key) =>
         /\ heap'[provider].queries[m.key].hasData
         /\ m.shows = "data"
         /\ ~m.isLoading
         /\ ~IssuesRequest
    ]_vars

\* SSRPostList was mounted 30 s after the server's fetch on the hydrated data
\* of its document, without a fetch
C15_Witness ==
  /\ now = 30000
  /\ \E m \in SSRPostLists :
       /\ m.doc = 1
       /\ ~m.isFetching
       /\ req[1].state[m.key].present
       /\ req[1].state[m.key].dataUpdatedAt = 0
       /\ heap[provider].queries[m.key].via = "hydrate"
       /\ heap[provider].queries[m.key].dataUpdatedAt = 0

\* the prefetch of request r has settled: it is no longer fetching and has
\* ended with the data or, after the retry, with an error
PrefetchSettled(r) ==
  /\ req[r].prefetchedOn # Undefined
  /\ ~heap[req[r].prefetchedOn].queries[req[r].prefetchKey].fetching
  /\ heap[req[r].prefetchedOn].queries[req[r].prefetchKey].status
       \in {"success", "error"}

\* C16: on the SSR page the prefetch blocks the rendering: before the prefetch
\* of ['posts', 1500] has settled no part of SSRDemoPage's output is produced
\* and dehydrate is not called.
C16_PrefetchBlocksRender ==
  /\ [](\A r \in Reqs : (req[r].page = "ssr" /\ req[r].pc = "awaiting") =>
          /\ ~req[r].shell
          /\ req[r].dehydratedFrom = Undefined
          /\ req[r].state = NoState
          /\ req[r].list = "none")
  /\ [][\A r \in Reqs :
          (req'[r].page = "ssr" /\ req'[r].pc = "rendered"
             /\ req[r].pc # "rendered") =>
            /\ req[r].prefetchKey = <<"posts", 1500>>
            /\ PrefetchSettled(r)
       ]_vars

\* SSRDemoPage has rendered after its prefetch succeeded, and the browser has
\* mounted the list of its document
C16_Witness ==
  /\ req[1].page = "ssr"
  /\ req[1].pc = "rendered"
  /\ req[1].state[<<"posts", 1500>>].present
  /\ \E m \in SSRPostLists : m.doc = 1

\* the Suspense boundary of the streaming page shows its fallback, the
\* skeleton
SkeletonShown(r) == req[r].shell /\ req[r].list \in {"none", "suspended"}

\* the shell is produced without waiting for the prefetch, the skeleton is
\* shown until the prefetch has settled and the list does not appear before
C17_ShellFirst ==
  \A r \in Reqs : req[r].page = "streaming" =>
    /\ req[r].shell
    /\ req[r].pc = "awaiting" => SkeletonShown(r)
    /\ ~PrefetchSettled(r) => req[r].list = "none"
    /\ req[r].list = "data" => PrefetchSettled(r)

IsRerender == renders > 0 /\ renders' = renders + 1

\* the step mounts QueryProvider in the browser
IsMount == provider = Undefined /\ provider' # Undefined

\* C18: QueryProvider calls getQueryClient only when it mounts: a re-render
\* of the mounted QueryProvider makes no call and passes the same instance to
\* QueryClientProvider, and in the browser a QueryProvider that mounts again
\* receives the singleton again.
C18_StableProviderClient ==
  [][/\ IsRerender =>
          /\ calls' = calls
          /\ provider' = provider
          /\ browserQueryClient' = browserQueryClient
          /\ heap' = heap
     /\ IsMount =>
          /\ IsCall
          /\ ~LastCall.isServer
          /\ provider' = LastCall.ref
          /\ provider' = browserQueryClient'
          /\ browserQueryClient # Undefined =>
               provider' = browserQueryClient
     /\ (~IsMount /\ provider' # Undefined) => provider' = provider
    ]_vars

\* a QueryProvider that was mounted a second time has rendered three times
\* with the singleton the first mount constructed
C18_Witness ==
  /\ renders = 3
  /\ provider = browserQueryClient
  /\ \E i, j \in SessionReturns :
       /\ i < j
       /\ calls[i].made = 1
       /\ calls[j].made = 0
       /\ calls[j].ref = provider

\* C19: the body of StreamingPostList runs only when the data of
\* ['posts', 2000] is present: while the query is pending the component
\* suspends, after a failed fetch it throws to the error boundary, and it
\* never renders its body (reading data.posts) without the data.
C19_BodyHasData ==
  [][/\ \A r \in Reqs :
          (req'[r].page = "streaming" /\ req'[r].list # req[r].list) =>
            LET q == heap'[req'[r].provider].queries[<<"posts", 2000>>]
            IN /\ req'[r].list \in {"data", "suspended", "error"}
               /\ req'[r].list = "data" => q.hasData
               /\ req'[r].list = "suspended" =>
                    (~q.hasData /\ q.fetching /\ q.status = "pending")
               /\ req'[r].list = "error" =>
                    (~q.hasData /\ ~q.fetching /\ q.status = "error")
     /\ \A m \in mounted' \ mounted : m.comp = "StreamingPostList" =>
          LET q == heap'[provider'].queries[<<"posts", 2000>>]
          IN /\ m.shows \in {"data", "suspended"}
             /\ m.shows = "data" => q.hasData
             /\ m.shows = "suspended" => (~q.hasData /\ q.fetching)
    ]_vars

\* the prefetch failed: on the server StreamingPostList suspended, fetched
\* and then rendered its body with the data, and in the browser the list of
\* the document, which carries no data, has suspended
C19_Witness ==
  /\ req[1].page = "streaming"
  /\ ~req[1].state[<<"posts", 2000>>].present
  /\ req[1].list = "data"
  /\ heap[req[1].provider].queries[<<"posts", 2000>>].via = "fetch"
  /\ \E m \in mounted :
       m.comp = "StreamingPostList" /\ m.doc = 1 /\ m.shows = "suspended"

\* the invocations of the query function by the fetch of q that is running
\* or that has failed: one for every failure and one for the request in
\* flight
Invocations(q) == q.failureCount + (IF q.inflight THEN 1 ELSE 0)

\* C20: a failing fetch is retried once: for one fetch of a query the query
\* function is invoked at most two times, the first attempt and one retry,
\* and the error is surfaced after the second failure.
C20_RetryOnce ==
  \A c \in 1 .. Len(heap) : \A k \in QueryKeys :
    LET q == heap[c].queries[k]
    IN /\ Invocations(q) <= 2
       /\ (q.fetching /\ ~q.inflight) => q.failureCount = 1
       /\ (q.status = "error" /\ ~q.fetching) => Invocations(q) = 2

\* a fetch of the session has failed twice and is in error, while the fetch
\* of the request's client awaits its retry after one failure
C20_Witness ==
  /\ browserQueryClient # Undefined
  /\ \E k \in QueryKeys :
       /\ heap[browserQueryClient].queries[k].status = "error"
       /\ heap[browserQueryClient].queries[k].failureCount = 2
  /\ req[1].prefetchedOn # Undefined
  /\ LET q == heap[req[1].prefetchedOn].queries[req[1].prefetchKey]
     IN q.fetching /\ ~q.inflight /\ q.failureCount = 1

\* the query CSRDemoPage's hook reads
CSRQuery == heap[provider].queries[QueryKey(CSRDelay)]

\* the refresh button on the page follows the isFetching of the render
\* that produced it: disabled with the loading label, or enabled with the
\* refresh label
ButtonFollowsFetching ==
  csr.mounted =>
    /\ csr.button.disabled = csr.isFetching
    /\ csr.button.label =
         (IF csr.isFetching THEN LabelFetching ELSE LabelIdle)

\* C21: on the CSR page the refresh button is disabled and labelled
\* "loading..." whenever isFetching is true, and enabled and labelled
\* "refresh" whenever isFetching is false; the page never shows an enabled
\* button while a fetch of its query is in flight, so no click starts a
\* second refetch during a fetch.
C21_ButtonDisabledWhileFetching ==
  /\ [](ButtonFollowsFetching
          /\ (csr.mounted /\ CSRQuery.fetching => csr.button.disabled))
  /\ [][handleRefresh => ~CSRQuery.fetching]_vars

\* the page shows the disabled button with the loading label during a
\* refetch that a click started when the query already had data
C21_Witness ==
  /\ csr.mounted
  /\ csr.isFetching
  /\ ~csr.isLoading
  /\ csr.button = [disabled |-> TRUE, label |-> LabelFetching]
  /\ CSRQuery.fetching
  /\ CSRQuery.hasData
  /\ Truthy(csr.startTime)

\* the step starts a fetch of CSRDemoPage's query on behalf of the session
\* and sends its request
Refetches ==
  /\ ~CSRQuery.fetching
  /\ heap'[provider].queries[QueryKey(CSRDelay)].fetching
  /\ heap'[provider].queries[QueryKey(CSRDelay)].inflight
  /\ heap'[provider].queries[QueryKey(CSRDelay)].request = fetchPosts(CSRDelay)

====
